---- MODULE Spec2Model ----
(***************************************************************************)
(* Endpoint resolution of registry.Service (src/registry/service.go):      *)
(* LookupPullEndpoints, LookupPushEndpoints, lookupEndpoints, TLSConfig    *)
(* and tlsConfigForMirror.                                                 *)
(*                                                                         *)
(* A Go string is a sequence of one-character strings, so that prefix      *)
(* tests, indexing, slicing and concatenation are computed as the code     *)
(* computes them.  A *tls.Config is an index into the sequence of          *)
(* tls.Config values the call allocated (objs); two entries hold the same  *)
(* pointer iff they hold the same index.                                   *)
(***************************************************************************)
EXTENDS Naturals, Sequences, FiniteSets

\* Mirrors             s.Config.Mirrors, the configured mirror URLs
\* InsecureRegistries  the hostnames the configuration classifies insecure
\* GOOS                runtime.GOOS of the build
\* logFile             the number of lines in /tmp/myDocker.log
\* calls               the number of lookups made so far
\* prev, cur           what the last two lookups returned to their caller
VARIABLES Mirrors, InsecureRegistries, GOOS, logFile, calls, prev, cur

vars == <<Mirrors, InsecureRegistries, GOOS, logFile, calls, prev, cur>>

config == <<Mirrors, InsecureRegistries, GOOS>>

\* ------------------------------------------------------------------ bounds
MaxMirrors == 2

MaxCalls == 2

\* ------------------------------------------------------------ Go strings
EmptyString == << >>

HasPrefix(s, prefix) ==
  /\ Len(s) >= Len(prefix)
  /\ SubSeq(s, 1, Len(prefix)) = prefix

\* Slice(s, i, j) is s[i:j] with Go's 0-based, half-open bounds.
Slice(s, i, j) == SubSeq(s, i + 1, j)

SliceFrom(s, i) == SubSeq(s, i + 1, Len(s))

\* Positions (0-based) at which c occurs in s.
Occurrences(s, c) == {i \in 0..(Len(s) - 1) : s[i + 1] = c}

Least(S) == CHOOSE i \in S : \A j \in S : i <= j

Greatest(S) == CHOOSE i \in S : \A j \in S : j <= i

\* strings.IndexRune / strings.Index for a one-character needle: -1 is
\* modelled as the record field found = FALSE.
IndexRune(s, c) ==
  IF Occurrences(s, c) = {} THEN [found |-> FALSE, at |-> 0]
  ELSE [found |-> TRUE, at |-> Least(Occurrences(s, c))]

LastIndex(s, c) ==
  IF Occurrences(s, c) = {} THEN [found |-> FALSE, at |-> 0]
  ELSE [found |-> TRUE, at |-> Greatest(Occurrences(s, c))]

\* ------------------------------------------------------------------ errors
NilErr == [kind |-> "nil", arg |-> EmptyString]

Err(kind, arg) == [kind |-> kind, arg |-> arg]

\* --------------------------------------------------- constants of the package
DefaultNamespace == <<"l", "i", "b", "r", "a", "r", "y">>

DefaultV2Registry ==
  <<"h", "t", "t", "p", "s", ":", "/", "/", "r", "e", "g", "i", "s", "t", "r",
    "y", "-", "1", ".", "d", "o", "c", "k", "e", "r", ".", "i", "o">>

DefaultV1Registry ==
  <<"h", "t", "t", "p", "s", ":", "/", "/", "i", "n", "d", "e", "x", ".", "d",
    "o", "c", "k", "e", "r", ".", "i", "o">>

DefaultRegistryVersionHeader == "Docker-Distribution-Api-Version"

APIVersion1 == "v1"

APIVersion2 == "v2"

NoVersionHeader == ""

HTTPS == <<"h", "t", "t", "p", "s", ":", "/", "/">>

HTTP == <<"h", "t", "t", "p", ":", "/", "/">>

\* ------------------------------------------------------------- net/url.Parse
\* url.Parse as tlsConfigForMirror uses it: only the error and the Host of
\* the result are read.  The model follows the library's steps (fragment,
\* scheme, query, opaque form, authority) for URLs without percent escapes.
Letters ==
  {"a", "b", "c", "d", "e", "f", "g", "h", "i", "j", "k", "l", "m", "n", "o",
   "p", "q", "r", "s", "t", "u", "v", "w", "x", "y", "z"}

SchemeOthers == {"0", "1", "2", "3", "4", "5", "6", "7", "8", "9", "+", "-", "."}

\* getscheme scans from position i (0-based): the scheme ends at the first
\* ':'; a digit, '+', '-' or '.' in first position, or any other character,
\* means there is no scheme; a ':' in first position is an error.
RECURSIVE getschemeFrom(_, _)
getschemeFrom(rawurl, i) ==
  IF i >= Len(rawurl) THEN [scheme |-> EmptyString, rest |-> rawurl, err |-> NilErr]
  ELSE LET c == rawurl[i + 1] IN
    IF c \in Letters THEN getschemeFrom(rawurl, i + 1)
    ELSE IF c \in SchemeOthers THEN
      IF i = 0 THEN [scheme |-> EmptyString, rest |-> rawurl, err |-> NilErr]
      ELSE getschemeFrom(rawurl, i + 1)
    ELSE IF c = ":" THEN
      IF i = 0
      THEN [scheme |-> EmptyString, rest |-> EmptyString,
            err |-> Err("parse: missing protocol scheme", rawurl)]
      ELSE [scheme |-> Slice(rawurl, 0, i), rest |-> SliceFrom(rawurl, i + 1),
            err |-> NilErr]
    ELSE [scheme |-> EmptyString, rest |-> rawurl, err |-> NilErr]

getscheme(rawurl) == getschemeFrom(rawurl, 0)

\* split(s, c, cutc = true) keeps what precedes the first c.
BeforeFirst(s, c) ==
  LET i == IndexRune(s, c) IN IF i.found THEN Slice(s, 0, i.at) ELSE s

\* parseAuthority: the host is what follows the last '@'.
AuthorityHost(authority) ==
  LET i == LastIndex(authority, "@") IN
    IF i.found THEN SliceFrom(authority, i.at + 1) ELSE authority

\* After the scheme and the query are cut off: a rootless rest under a
\* scheme is opaque; an authority follows a leading "//" (not "///" when
\* there is no scheme); everything else is a path and leaves Host empty.
parseRest(scheme, rest) ==
  IF ~HasPrefix(rest, <<"/">>) /\ scheme # EmptyString
  THEN [Host |-> EmptyString, err |-> NilErr]
  ELSE IF /\ HasPrefix(rest, <<"/", "/">>)
          /\ (scheme # EmptyString \/ ~HasPrefix(rest, <<"/", "/", "/">>))
    THEN [Host |-> AuthorityHost(BeforeFirst(SliceFrom(rest, 2), "/")),
          err |-> NilErr]
  ELSE [Host |-> EmptyString, err |-> NilErr]

parseScheme(sch) ==
  IF sch.err # NilErr THEN [Host |-> EmptyString, err |-> sch.err]
  ELSE parseRest(sch.scheme, BeforeFirst(sch.rest, "?"))

parse(u) ==
  IF u = <<"*">> THEN [Host |-> EmptyString, err |-> NilErr]
  ELSE parseScheme(getscheme(u))

Parse(rawurl) == parse(BeforeFirst(rawurl, "#"))

\* ------------------------------------------------------ transport trust
\* The certificate directory of the daemon: hosts with custom certificates
\* enrolled, and hosts whose directory cannot be read.
HostI == <<"i">>

HostC == <<"c">>

EnrolledCerts == {HostI}

BrokenCertsDirs == {HostC}

ServerDefault == [InsecureSkipVerify |-> FALSE, Certs |-> {}]

isSecureIndex(hostname) == hostname \notin InsecureRegistries

newTLSConfig(hostname, isSecure) ==
  IF isSecure /\ hostname \in BrokenCertsDirs
  THEN [cfg |-> ServerDefault, err |-> Err("certs: cannot read directory", hostname)]
  ELSE [cfg |-> [InsecureSkipVerify |-> ~isSecure,
                 Certs |-> IF isSecure THEN {hostname} \cap EnrolledCerts ELSE {}],
        err |-> NilErr]

\* Service.TLSConfig
TLSConfig(hostname) == newTLSConfig(hostname, isSecureIndex(hostname))

\* Service.tlsConfigForMirror once the mirror is parsed; asked lists the
\* hostnames handed to TLSConfig.
mirrorTLSConfigOf(mirrorURL) ==
  IF mirrorURL.err # NilErr
  THEN [cfg |-> ServerDefault, err |-> mirrorURL.err, asked |-> << >>]
  ELSE [cfg |-> TLSConfig(mirrorURL.Host).cfg,
        err |-> TLSConfig(mirrorURL.Host).err,
        asked |-> <<mirrorURL.Host>>]

tlsConfigForMirror(mirror) == mirrorTLSConfigOf(Parse(mirror))

\* ------------------------------------------------------------ APIEndpoint
NilConfig == 0

\* The zero value of APIEndpoint; a composite literal sets the fields it names.
APIEndpoint ==
  [Mirror |-> FALSE, URL |-> EmptyString, Version |-> "unknown",
   Official |-> FALSE, TrimHostname |-> FALSE, TLSConfig |-> NilConfig,
   VersionHeader |-> NoVersionHeader, Versions |-> << >>]

v2Versions == <<[Type |-> "registry", Version |-> "2.0"]>>

\* ------------------------------------------------------- lookupEndpoints
\* The frame of one call: the candidate list, the tls.Config values allocated
\* so far (a pointer is an index into objs), the hostnames handed to
\* TLSConfig, the number of lines written to the log, and the error.
\* objs[1] is cfg, the call's copy of tlsconfig.ServerDefault.
\* Mutant: the candidate list and its policies are kept from the previous call.
EntryFrame_retained ==
  [endpoints |-> cur.endpoints, objs |-> cur.objs \o <<ServerDefault>>,
   asked |-> << >>, logged |-> 1, err |-> NilErr]

EntryFrame ==
  [endpoints |-> << >>, objs |-> <<ServerDefault>>, asked |-> << >>,
   logged |-> 1, err |-> NilErr]

\* Mutant: the entries built so far are returned with the error.
Fail_partial(frame, err) == [frame EXCEPT !.err = err]

\* return nil, err
Fail(frame, err) == [frame EXCEPT !.endpoints = << >>, !.err = err]

\* Mutant: the mirror entry is not flagged as a mirror.
mirrorEndpoint_unflagged(mirror, mirrorTLSConfig) ==
  [APIEndpoint EXCEPT
     !.URL = mirror,
     !.Version = APIVersion2,
     !.TrimHostname = TRUE,
     !.TLSConfig = mirrorTLSConfig]

\* The entry appended for one mirror.
mirrorEndpoint(mirror, mirrorTLSConfig) ==
  [APIEndpoint EXCEPT
     !.URL = mirror,
     !.Version = APIVersion2,
     !.Mirror = TRUE,
     !.TrimHostname = TRUE,
     !.TLSConfig = mirrorTLSConfig]

\* for _, mirror := range s.Config.Mirrors, from the k-th mirror on.
RECURSIVE mirrorLoop(_, _)

\* The body of the loop for the k-th mirror, r being what
\* tlsConfigForMirror returned for it.
RECURSIVE mirrorStep(_, _, _)
mirrorStep(frame, k, r) ==
  IF r.err # NilErr
  THEN Fail([frame EXCEPT !.asked = @ \o r.asked], r.err)
  ELSE
    mirrorLoop(
      [frame EXCEPT
         !.asked = @ \o r.asked,
         !.objs = Append(@, r.cfg),
         !.logged = @ + 1,
         !.endpoints = Append(@, mirrorEndpoint(Mirrors[k], Len(frame.objs) + 1))],
      k + 1)

mirrorLoop(frame, k) ==
  IF k > Len(Mirrors) THEN frame
  ELSE mirrorStep(frame, k, tlsConfigForMirror(Mirrors[k]))

\* Mutant: the legacy v1 endpoint is offered on every platform.
legacySupported_always == TRUE

\* runtime.GOOS == "linux"
legacySupported == GOOS = "linux"

\* The branch for names under the default namespace.
officialEndpoints(frame, tlsConfig) ==
  LET v2 == [frame EXCEPT
               !.logged = @ + 1,
               !.endpoints = Append(@,
                 [APIEndpoint EXCEPT
                    !.URL = DefaultV2Registry,
                    !.Version = APIVersion2,
                    !.Official = TRUE,
                    !.TrimHostname = TRUE,
                    !.TLSConfig = tlsConfig])]
      v1 == IF legacySupported
            THEN [v2 EXCEPT
                    !.logged = @ + 1,
                    !.endpoints = Append(@,
                      [APIEndpoint EXCEPT
                         !.URL = DefaultV1Registry,
                         !.Version = APIVersion1,
                         !.Official = TRUE,
                         !.TrimHostname = TRUE,
                         !.TLSConfig = tlsConfig])]
            ELSE v2
  IN [v1 EXCEPT !.logged = @ + 1]

\* The candidates of one scheme for hostname: v2 with the discovery header
\* and the versions list, then v1.
schemeEndpoints(scheme, hostname, tlsConfig) ==
  << [APIEndpoint EXCEPT
        !.URL = scheme \o hostname,
        !.Version = APIVersion2,
        !.TrimHostname = TRUE,
        !.TLSConfig = tlsConfig,
        !.VersionHeader = DefaultRegistryVersionHeader,
        !.Versions = v2Versions],
     [APIEndpoint EXCEPT
        !.URL = scheme \o hostname,
        !.Version = APIVersion1,
        !.TrimHostname = TRUE,
        !.TLSConfig = tlsConfig] >>

\* Mutant: only a missing '/' is rejected (slashIndex < 0).
slashIndexInvalid_negative(slashIndex) == ~slashIndex.found

\* slashIndex <= 0
slashIndexInvalid(slashIndex) == ~slashIndex.found \/ slashIndex.at = 0

\* Mutant: the http:// entries are appended whatever the policy says.
insecureEndpoints_always(frame, isSecure, hostname, tlsConfig) ==
  [frame EXCEPT
     !.logged = @ + 1,
     !.endpoints = @ \o schemeEndpoints(HTTP, hostname, tlsConfig)]

\* Mutant: the http:// entries carry a policy resolved a second time.
insecureEndpoints_resolvedAgain(frame, isSecure, hostname, tlsConfig) ==
  IF ~isSecure
  THEN [frame EXCEPT
          !.objs = Append(@, TLSConfig(hostname).cfg),
          !.logged = @ + 1,
          !.endpoints = @ \o schemeEndpoints(HTTP, hostname, Len(frame.objs) + 1)]
  ELSE frame

\* if !isSecure { append the http:// entries }
insecureEndpoints(frame, isSecure, hostname, tlsConfig) ==
  IF ~isSecure
  THEN [frame EXCEPT
          !.logged = @ + 1,
          !.endpoints = @ \o schemeEndpoints(HTTP, hostname, tlsConfig)]
  ELSE frame

\* The branch for names that carry their host.
hostEndpoints(frame, repoName) ==
  LET slashIndex == IndexRune(repoName, "/") IN
    IF slashIndexInvalid(slashIndex)
    THEN Fail(frame, Err("invalid repo name: missing '/'", repoName))
    ELSE
      LET hostname == Slice(repoName, 0, slashIndex.at)
          r        == TLSConfig(hostname)
          asked    == [frame EXCEPT !.asked = Append(@, hostname)]
      IN
        IF r.err # NilErr THEN Fail(asked, r.err)
        ELSE
          LET tlsConfig == Len(frame.objs) + 1
              isSecure  == ~r.cfg.InsecureSkipVerify
              https == [asked EXCEPT
                          !.objs = Append(@, r.cfg),
                          !.logged = @ + 1,
                          !.endpoints = @ \o schemeEndpoints(HTTPS, hostname, tlsConfig)]
              http  == insecureEndpoints(https, isSecure, hostname, tlsConfig)
          IN [http EXCEPT !.logged = @ + 1]

\* What follows the mirror loop; tlsConfig points to cfg.
registryEndpoints(mirrors, repoName, tlsConfig) ==
  IF mirrors.err # NilErr THEN mirrors
  ELSE IF HasPrefix(repoName, DefaultNamespace \o <<"/">>)
    THEN officialEndpoints(mirrors, tlsConfig)
  ELSE hostEndpoints(mirrors, repoName)

lookupEndpoints(repoName) ==
  registryEndpoints(mirrorLoop(EntryFrame, 1), repoName, Len(EntryFrame.objs))

LookupPullEndpoints(repoName) == lookupEndpoints(repoName)

\* Mutant: every entry is kept, mirrors included.
RECURSIVE pushLoop_unfiltered(_, _, _)
pushLoop_unfiltered(allEndpoints, k, endpoints) ==
  IF k > Len(allEndpoints) THEN endpoints
  ELSE pushLoop_unfiltered(allEndpoints, k + 1, Append(endpoints, allEndpoints[k]))

\* for _, endpoint := range allEndpoints, from the k-th entry on.
RECURSIVE pushLoop(_, _, _)
pushLoop(allEndpoints, k, endpoints) ==
  IF k > Len(allEndpoints) THEN endpoints
  ELSE LET endpoint == allEndpoints[k] IN
    pushLoop(allEndpoints, k + 1,
             IF ~endpoint.Mirror THEN Append(endpoints, endpoint) ELSE endpoints)

\* if err == nil { the loop }; return endpoints, err
pushEndpoints(all) ==
  [all EXCEPT !.endpoints =
     IF all.err = NilErr THEN pushLoop(all.endpoints, 1, << >>) ELSE << >>]

LookupPushEndpoints(repoName) == pushEndpoints(lookupEndpoints(repoName))

\* ------------------------------------------------------------ the machine
MirrorHTTPI == HTTP \o HostI

MirrorBare == <<"m">>

MirrorNoScheme == <<":", "m">>

MirrorHTTPSC == HTTPS \o HostC

MirrorURLs == {MirrorHTTPI, MirrorBare, MirrorNoScheme, MirrorHTTPSC}

OfficialName == DefaultNamespace \o <<"/", "x">>

NameI == HostI \o <<"/", "x">>

NameC == HostC \o <<"/", "x">>

NameNoSlash == <<"x">>

NameLeadingSlash == <<"/", "x">>

RepoNames == {OfficialName, NameI, NameC, NameNoSlash, NameLeadingSlash}

NoCall ==
  [op |-> "none", repoName |-> EmptyString, endpoints |-> << >>,
   err |-> NilErr, objs |-> << >>, asked |-> << >>]

\* The caller receives the outcome r of the call; the lines the call logged
\* have been appended to the log file (os.OpenFile with O_CREATE|O_APPEND is
\* taken to succeed).
Return(op, repoName, r) ==
  /\ cur' = [op |-> op, repoName |-> repoName, endpoints |-> r.endpoints,
             err |-> r.err, objs |-> r.objs, asked |-> r.asked]
  /\ logFile' = logFile + r.logged

Init ==
  /\ Mirrors \in UNION {[1..n -> MirrorURLs] : n \in 0..MaxMirrors}
  /\ InsecureRegistries \in {{}, {HostI}}
  /\ GOOS \in {"linux", "windows"}
  /\ logFile = 0
  /\ calls = 0
  /\ prev = NoCall
  /\ cur = NoCall

PullCall(repoName) ==
  /\ calls < MaxCalls
  /\ Return("pull", repoName, LookupPullEndpoints(repoName))
  /\ prev' = cur
  /\ calls' = calls + 1
  /\ UNCHANGED config

PushCall(repoName) ==
  /\ calls < MaxCalls
  /\ Return("push", repoName, LookupPushEndpoints(repoName))
  /\ prev' = cur
  /\ calls' = calls + 1
  /\ UNCHANGED config

Next ==
  \/ \E repoName \in RepoNames : PullCall(repoName)
  \/ \E repoName \in RepoNames : PushCall(repoName)

Spec == Init /\ [][Next]_vars

\* ------------------------------------------------------------ properties
Called(c) == c.op \in {"pull", "push"}

\* An entry with its trust policy pointer replaced by the policy it points to.
View(c, e) == [e EXCEPT !.TLSConfig = c.objs[e.TLSConfig]]

Views(c) == [k \in 1..Len(c.endpoints) |-> View(c, c.endpoints[k])]

IsNonMirror(e) == ~e.Mirror

NonMirror(c) == SelectSeq(c.endpoints, IsNonMirror)

\* The entries after the first Len(Mirrors) positions.
AfterMirrors(c) == SubSeq(c.endpoints, Len(Mirrors) + 1, Len(c.endpoints))

AfterMirrorsViews(c) ==
  [k \in 1..Len(AfterMirrors(c)) |-> View(c, AfterMirrors(c)[k])]

MirrorFails(k) == tlsConfigForMirror(Mirrors[k]).err # NilErr

FailingMirrors == {k \in 1..Len(Mirrors) : MirrorFails(k)}

AllMirrorsResolve == FailingMirrors = {}

IsOfficialName(name) == HasPrefix(name, DefaultNamespace \o <<"/">>)

\* A name without '/' or with an empty host segment.
IsInvalidName(name) == Occurrences(name, "/") = {} \/ name[1] = "/"

HasHost(name) == ~IsOfficialName(name) /\ ~IsInvalidName(name)

HostOf(name) == Slice(name, 0, Least(Occurrences(name, "/")))

ResolvesSecure(h) ==
  TLSConfig(h).err = NilErr /\ ~TLSConfig(h).cfg.InsecureSkipVerify

CanonicalV2 ==
  [Mirror |-> FALSE, URL |-> DefaultV2Registry, Version |-> APIVersion2,
   Official |-> TRUE, TrimHostname |-> TRUE, TLSConfig |-> ServerDefault,
   VersionHeader |-> NoVersionHeader, Versions |-> << >>]

CanonicalV1 ==
  [Mirror |-> FALSE, URL |-> DefaultV1Registry, Version |-> APIVersion1,
   Official |-> TRUE, TrimHostname |-> TRUE, TLSConfig |-> ServerDefault,
   VersionHeader |-> NoVersionHeader, Versions |-> << >>]

ExpectedOfficial ==
  IF GOOS = "linux" THEN <<CanonicalV2, CanonicalV1>> ELSE <<CanonicalV2>>

HostV2(scheme, h, policy) ==
  [Mirror |-> FALSE, URL |-> scheme \o h, Version |-> APIVersion2,
   Official |-> FALSE, TrimHostname |-> TRUE, TLSConfig |-> policy,
   VersionHeader |-> DefaultRegistryVersionHeader,
   Versions |-> <<[Type |-> "registry", Version |-> "2.0"]>>]

HostV1(scheme, h, policy) ==
  [Mirror |-> FALSE, URL |-> scheme \o h, Version |-> APIVersion1,
   Official |-> FALSE, TrimHostname |-> TRUE, TLSConfig |-> policy,
   VersionHeader |-> NoVersionHeader, Versions |-> << >>]

\* C1: when a pull lookup succeeds under a non-empty mirror list of length n,
\* the first n entries are the configured mirror URLs in configured order,
\* each v2, Mirror and TrimHostname, and no later entry has Mirror set.
C1_MirrorsFirst ==
  (cur.op = "pull" /\ cur.err = NilErr /\ Len(Mirrors) > 0) =>
    /\ Len(cur.endpoints) >= Len(Mirrors)
    /\ \A k \in 1..Len(cur.endpoints) :
         IF k <= Len(Mirrors)
         THEN /\ cur.endpoints[k].URL = Mirrors[k]
              /\ cur.endpoints[k].Version = APIVersion2
              /\ cur.endpoints[k].Mirror
              /\ cur.endpoints[k].TrimHostname
         ELSE ~cur.endpoints[k].Mirror

C1_Witness ==
  /\ cur.op = "pull" /\ cur.err = NilErr
  /\ Len(Mirrors) = MaxMirrors /\ Mirrors[1] # Mirrors[Len(Mirrors)]
  /\ Len(cur.endpoints) > Len(Mirrors)
  /\ cur.endpoints[1].Mirror

\* C2: a push lookup returns the pull lookup's entries without those that
\* have Mirror set, in the same relative order; when the pull lookup fails the
\* push lookup returns the same error and no entries.
C2_PushIsPullWithoutMirrors ==
  cur.op = "push" =>
    LET pull == LookupPullEndpoints(cur.repoName) IN
      /\ cur.err = pull.err
      /\ cur.objs = pull.objs
      /\ cur.endpoints = SelectSeq(pull.endpoints, IsNonMirror)
      /\ pull.err # NilErr => cur.endpoints = << >>

C2_Witness ==
  /\ cur.op = "push" /\ cur.err = NilErr
  /\ Len(Mirrors) > 0
  /\ Len(cur.endpoints) > 1
  /\ Len(LookupPullEndpoints(cur.repoName).endpoints) > Len(cur.endpoints)

\* What the official branch guarantees of a call c.
OfficialShape(c) ==
  /\ c.err = NilErr
  /\ [k \in 1..Len(NonMirror(c)) |-> View(c, NonMirror(c)[k])] = ExpectedOfficial
  /\ NonMirror(c) = AfterMirrors(c)
  /\ c.asked = [k \in 1..Len(Mirrors) |-> Parse(Mirrors[k]).Host]
  /\ \A k \in 1..Len(NonMirror(c)) :
       /\ ~HasPrefix(NonMirror(c)[k].URL, HTTPS \o DefaultNamespace)
       /\ ~HasPrefix(NonMirror(c)[k].URL, HTTP)

\* C3 as stated: for every name under the default namespace the non-mirror
\* part of the pull result is the canonical v2 endpoint, followed by the
\* canonical v1 endpoint when legacy v1 is supported, whatever the mirrors.
C3_OfficialAnyMirrors ==
  (cur.op = "pull" /\ IsOfficialName(cur.repoName)) => OfficialShape(cur)

\* C3 amended: the same, for every configuration in which the trust policy of
\* every configured mirror resolves; the lookup then succeeds.
C3_OfficialWhenMirrorsResolve ==
  (cur.op = "pull" /\ IsOfficialName(cur.repoName) /\ AllMirrorsResolve) =>
    OfficialShape(cur)

C3_Witness ==
  /\ cur.op = "pull" /\ IsOfficialName(cur.repoName) /\ AllMirrorsResolve
  /\ Len(Mirrors) > 0
  /\ HostI \in InsecureRegistries
  /\ GOOS = "linux"
  /\ Len(NonMirror(cur)) > 1

\* What the branch for a verifying host h guarantees after the mirrors.
SecureHostShape(c, h) ==
  /\ c.err = NilErr
  /\ AfterMirrorsViews(c) =
       <<HostV2(HTTPS, h, TLSConfig(h).cfg), HostV1(HTTPS, h, TLSConfig(h).cfg)>>

\* C4 as stated: for a name h/<rest> whose host resolves to a verifying
\* policy, the pull result after the mirror entries is [https v2, https v1]
\* and no entry anywhere in the result has the URL http://h.
C4_SecureHostNoHTTPAnywhere ==
  (cur.op = "pull" /\ HasHost(cur.repoName)
     /\ ResolvesSecure(HostOf(cur.repoName))) =>
    /\ SecureHostShape(cur, HostOf(cur.repoName))
    /\ \A k \in 1..Len(cur.endpoints) :
         cur.endpoints[k].URL # HTTP \o HostOf(cur.repoName)

\* C4 amended: when every configured mirror's trust policy resolves, the
\* lookup succeeds, the result after the mirror entries is [https v2,
\* https v1], and no entry other than a configured mirror has an http:// URL.
C4_SecureHostNoHTTPBesideMirrors ==
  (cur.op = "pull" /\ HasHost(cur.repoName)
     /\ ResolvesSecure(HostOf(cur.repoName)) /\ AllMirrorsResolve) =>
    /\ SecureHostShape(cur, HostOf(cur.repoName))
    /\ \A k \in 1..Len(cur.endpoints) :
         HasPrefix(cur.endpoints[k].URL, HTTP) =>
           /\ k <= Len(Mirrors)
           /\ cur.endpoints[k].Mirror
           /\ cur.endpoints[k].URL = Mirrors[k]

C4_Witness ==
  /\ cur.op = "pull" /\ cur.repoName = NameI /\ cur.err = NilErr
  /\ ResolvesSecure(HostI)
  /\ Len(Mirrors) > 0 /\ Mirrors[1] = MirrorHTTPI
  /\ Len(AfterMirrors(cur)) > 1
  /\ TLSConfig(HostI).cfg # ServerDefault

\* What the branch for an insecure host h guarantees after the mirrors: the
\* four entries in order, all holding one pointer to a skip-verify policy.
InsecureHostShape(c, h) ==
  /\ c.err = NilErr
  /\ AfterMirrorsViews(c) =
       <<HostV2(HTTPS, h, TLSConfig(h).cfg), HostV1(HTTPS, h, TLSConfig(h).cfg),
         HostV2(HTTP, h, TLSConfig(h).cfg), HostV1(HTTP, h, TLSConfig(h).cfg)>>
  /\ \A j, k \in 1..Len(AfterMirrors(c)) :
       AfterMirrors(c)[j].TLSConfig = AfterMirrors(c)[k].TLSConfig
  /\ \A k \in 1..Len(AfterMirrors(c)) :
       /\ AfterMirrors(c)[k].TLSConfig # NilConfig
       /\ c.objs[AfterMirrors(c)[k].TLSConfig].InsecureSkipVerify

\* C5 as stated: for a name h/<rest> whose host is classified insecure, the
\* pull result after the mirror entries is [https v2, https v1, http v2,
\* http v1], all four holding the one policy object resolved for h.
C5_InsecureHostAnyMirrors ==
  (cur.op = "pull" /\ HasHost(cur.repoName)
     /\ HostOf(cur.repoName) \in InsecureRegistries) =>
    InsecureHostShape(cur, HostOf(cur.repoName))

\* C5 amended: the same, for every configuration in which the trust policy of
\* every configured mirror resolves; the lookup then succeeds.
C5_InsecureHostWhenMirrorsResolve ==
  (cur.op = "pull" /\ HasHost(cur.repoName)
     /\ HostOf(cur.repoName) \in InsecureRegistries /\ AllMirrorsResolve) =>
    InsecureHostShape(cur, HostOf(cur.repoName))

C5_Witness ==
  /\ cur.op = "pull" /\ cur.repoName = NameI /\ cur.err = NilErr
  /\ HostI \in InsecureRegistries
  /\ Len(Mirrors) > 0
  /\ Len(AfterMirrors(cur)) > 3
  /\ HasPrefix(cur.endpoints[Len(cur.endpoints)].URL, HTTP)

InvalidNameErr(name) == Err("invalid repo name: missing '/'", name)

FirstMirrorErr == tlsConfigForMirror(Mirrors[Least(FailingMirrors)]).err

\* C6 as stated: for a name without '/' or with an empty host segment, both
\* lookups fail with the invalid-name error and return no entries.
C6_InvalidNameError ==
  (Called(cur) /\ IsInvalidName(cur.repoName)) =>
    /\ cur.err = InvalidNameErr(cur.repoName)
    /\ cur.endpoints = << >>

\* C6 amended: for such a name both lookups fail and return no entries; the
\* error is the invalid-name error when every configured mirror's trust
\* policy resolves, and the first failing mirror's error otherwise.
C6_InvalidNameFails ==
  (Called(cur) /\ IsInvalidName(cur.repoName)) =>
    /\ cur.endpoints = << >>
    /\ cur.err # NilErr
    /\ AllMirrorsResolve => cur.err = InvalidNameErr(cur.repoName)
    /\ ~AllMirrorsResolve => cur.err = FirstMirrorErr

C6_Witness ==
  /\ Called(cur) /\ cur.repoName = NameLeadingSlash
  /\ Len(Mirrors) > 0 /\ AllMirrorsResolve
  /\ cur.err = InvalidNameErr(NameLeadingSlash)

\* C7: when the trust policy of some configured mirror does not resolve, both
\* lookups return the error of the first such mirror in configured order and
\* no entries, for every repository name.
C7_MirrorFailureAborts ==
  (Called(cur) /\ ~AllMirrorsResolve) =>
    /\ cur.err = FirstMirrorErr
    /\ cur.endpoints = << >>

C7_Witness ==
  /\ Called(cur) /\ IsOfficialName(cur.repoName)
  /\ Len(Mirrors) = MaxMirrors
  /\ ~MirrorFails(1)
  /\ MirrorFails(Len(Mirrors))
  /\ cur.err # NilErr

\* C8: a lookup changes no state outside the call: neither the configuration
\* nor any file.
C8_NoStateChange == [][logFile' = logFile /\ config' = config]_vars

C10_HostnamesNonEmpty ==
  \A k \in 1..Len(cur.asked) : cur.asked[k] # EmptyString

====
